---- MODULE Spec2Model ----
(***************************************************************************)
(* State-machine model of echortc.py: the EchoRTCBot plugin (call          *)
(* registry, invite / candidates / hangup handlers, the connection-state   *)
(* and track callbacks, the scripted pipeline task, stop) and ProxyTrack.  *)
(*                                                                         *)
(* Every action runs one coroutine from one suspension point (an await of  *)
(* the engine, the transport, a future or a sleep) to the next, as the     *)
(* asyncio loop does.  A message counts as sent in the step that calls the *)
(* transport; the next step of the coroutine starts when the call returns. *)
(***************************************************************************)
EXTENDS Integers, Sequences, FiniteSets, TLC

\* ------------------------------------------------------------- bounds
\* invite events dispatched (each accepted one creates a session)
MaxInvites == 2
\* call identities (room, sender, call_id) that events may carry
NumCalls == 2
\* candidates events dispatched, and entries per event
MaxBatches == 2
MaxBatchLen == 2
\* distinct parseable candidates
NumCands == 1
\* hangup events dispatched
MaxHangups == 1
\* connection-state notifications of the engine, over all sessions
MaxNotifs == 3
\* stop() calls
MaxStops == 1
\* track announcements, track ends, and recv calls of the senders
MaxTracks == 2
MaxEnded == 1
MaxRecvs == 2
\* entries of one long candidates event, and its distinct candidates
LongLen == 3
LongCands == 2

CallIds == 1..NumCalls
Kinds == {"audio", "video"}

\* A candidates entry: 0 is an empty payload (end of candidates), -1 a
\* payload Candidate.from_sdp rejects, 1..NumCands a parseable candidate.
Empty == 0
Bad == 0 - 1
Entries == {Empty, Bad} \cup (1..NumCands)
Batches == UNION {[1..n -> Entries] : n \in 1..MaxBatchLen}

VARIABLES
    conns,     \* self.conns: the dict's entry array, in insertion order
    sess,      \* every WrappedConn ever created, with its invite closure;
               \* log: the messages sent to the transport for the session
    tasks,     \* pipeline tasks created by on_connectionstatechange
    cands,     \* invocations of the candidates handler
    hangs,     \* invocations of the hangup handler
    fails,     \* invocations of on_connectionstatechange that saw "failed"
    stops,     \* invocations of stop
    rejected,  \* invites that raised RuntimeError on the version check
    quota,     \* events the environment may still dispatch
    proxy      \* a ProxyTrack on its own, with any caller and any reader

vars == <<conns, sess, tasks, cands, hangs, fails, stops, rejected, quota, proxy>>

\* the identities the events of this run carry
Calls == 1..quota.calls

\* ------------------------------------------------------- self.conns
\* A dict keeps its entries in insertion order; a deleted entry stays in the
\* array as a dummy (val = 0) and an assignment to a present key replaces
\* the value in place.
Live(d) == {i \in 1..Len(d) : d[i].val # 0}

Has(d, k) == \E i \in Live(d) : d[i].key = k

Lookup(d, k) == IF Has(d, k) THEN d[CHOOSE i \in Live(d) : d[i].key = k].val ELSE 0

SetItem(d, k, v) ==
    IF Has(d, k)
    THEN [i \in 1..Len(d) |-> IF d[i].val # 0 /\ d[i].key = k
                              THEN [key |-> k, val |-> v] ELSE d[i]]
    ELSE Append(d, [key |-> k, val |-> v])

Pop(d, k) ==
    [i \in 1..Len(d) |-> IF d[i].key = k THEN [key |-> k, val |-> 0] ELSE d[i]]

Registered(s) == Lookup(conns, sess[s].id) = s

\* ------------------------------------------------------- ProxyTrack
\* src: the producer (_source) or "none"; wait: _source_wait, "none" (None),
\* "pending" or "done"; rd: where the one reader (the engine's sender) is in
\* recv; from: the producer whose recv() the reader is awaiting; ret: what
\* the last finished recv returned.
ProxyInit(source) ==
    [src |-> source, wait |-> IF source = "none" THEN "pending" ELSE "none",
     rd |-> "idle", from |-> "none", ret |-> "none"]

\* set_source assigns _source first and then resolves the future, so the
\* producer is installed even when set_result raises InvalidStateError.
SetSourceRaises(t) == t.wait = "done"

SetSource(t, p) ==
    [t EXCEPT !.src = p, !.wait = IF @ = "pending" THEN "done" ELSE @]

\* A ProxyTrack on its own: t is the track, blocked whether the reader's
\* current or last recv waited for a producer, installed the producers
\* set_source installed since that recv began to wait, raised whether the
\* last set_source raised.
Alone(t) == [t |-> t, blocked |-> FALSE, installed |-> {}, raised |-> FALSE]

\* --------------------------------------------------------- sessions
NewSession(id) ==
    [id |-> id, closed |-> FALSE, cstate |-> "new",
     remote |-> FALSE, local |-> FALSE,
     prepare |-> "pending", candw |-> "pending", inv |-> "setRemote",
     applied |-> <<>>, sink |-> "new", inputs |-> {}, ended |-> {},
     out |-> [audio |-> ProxyInit("hello"), video |-> ProxyInit("none")],
     log |-> <<>>]

\* line 197: a task at its first await, sleep(8.1); answered records
\* whether the answer was sent when the task was created.
NewTask(s) ==
    [sid |-> s, pc |-> "sleep8", vrec |-> FALSE, log |-> <<>>,
     answered |-> sess[s].inv = "done"]

Sids == 1..Len(sess)

Logged(s, e) == \E i \in 1..Len(sess[s].log) : sess[s].log[i] = e

Count(s, e) == Cardinality({i \in 1..Len(sess[s].log) : sess[s].log[i] = e})

\* pc.close() is called on session s: the handle is closed from then on.
CloseCall(S, s) == [S EXCEPT ![s].closed = TRUE]

\* pc.close() may fail.
CloseOutcomes == {"ok", "raise"}

\* What an engine call on a handle does once the handle was closed is not
\* decided by this code: it may raise or go through.
EngineOutcomes(s) == IF sess[s].closed THEN {"ok", "raise"} ELSE {"ok"}

\* The events the environment dispatches in one run: the call identities
\* they carry, then the numbers of invite, candidates and hangup events,
\* connection-state notifications, stop calls, track announcements, track
\* ends and recv calls of the senders.
Budget(c, i, b, h, n, st, tr, e, r) ==
    [calls |-> c, invite |-> i, batch |-> b, hangup |-> h, notif |-> n,
     stop |-> st, track |-> tr, ended |-> e, recv |-> r]

\* The runs explored: one call with its candidate batches, a hangup and a
\* state notification; several invites with a hangup, a state notification
\* and a shutdown; one
\* call through its pipeline with the sender reading the proxies; one call
\* whose pipeline meets further notifications, a hangup and a track end;
\* one call with a batch, a state notification and repeated hangups.
Scenarios ==
    { Budget(1, 1, MaxBatches, MaxHangups, 1, 0, 0, 0, 0),
      Budget(1, 1, 1, MaxHangups + 1, 1, 0, 0, 0, 0),
      Budget(NumCalls, MaxInvites, 0, MaxHangups, 1, MaxStops, 0, 0, 0),
      Budget(1, 1, 1, 0, 1, 0, 1, 0, MaxRecvs),
      Budget(1, 1, 0, MaxHangups, MaxNotifs, 0, MaxTracks, MaxEnded, 0) }

Init ==
    /\ conns = <<>>
    /\ sess = <<>>
    /\ tasks = <<>>
    /\ cands = <<>>
    /\ hangs = <<>>
    /\ fails = <<>>
    /\ stops = <<>>
    /\ rejected = 0
    /\ quota \in Scenarios
    /\ proxy = Alone(ProxyInit("none"))

\* ------------------------------------------------------------ invite
\* invite, lines 113-210: the version check, then the connection, the
\* registry entry, players, proxies and callbacks, up to the await of
\* setRemoteDescription.
\* invite with the version check after line 127.
InviteCheckedLate(id, ver) ==
    /\ quota.invite > 0
    /\ quota' = [quota EXCEPT !.invite = @ - 1]
    /\ sess' = Append(sess, [NewSession(id) EXCEPT
                                !.inv = IF ver # "1" THEN "error" ELSE @])
    /\ conns' = SetItem(conns, id, Len(sess) + 1)
    /\ rejected' = IF ver # "1" THEN rejected + 1 ELSE rejected
    /\ UNCHANGED <<tasks, cands, hangs, fails, stops, proxy>>

Invite(id, ver) ==
    /\ quota.invite > 0
    /\ quota' = [quota EXCEPT !.invite = @ - 1]
    /\ IF ver # "1"
       THEN /\ rejected' = rejected + 1
            /\ UNCHANGED <<conns, sess>>
       ELSE /\ sess' = Append(sess, NewSession(id))
            /\ conns' = SetItem(conns, id, Len(sess) + 1)
            /\ UNCHANGED rejected
    /\ UNCHANGED <<tasks, cands, hangs, fails, stops, proxy>>

\* lines 210-215: setRemoteDescription returned; blackhole.start(), the
\* negotiation-ready signal, and the call of send_receipt.
InviteRemoteSet(s, out) ==
    /\ sess[s].inv = "setRemote"
    /\ out \in EngineOutcomes(s)
    /\ sess' = [sess EXCEPT ![s] =
          IF out = "raise" THEN [@ EXCEPT !.inv = "error"]
          ELSE [@ EXCEPT !.remote = TRUE, !.sink = "started",
                         !.prepare = "done", !.inv = "receipt",
                         !.log = Append(@, "invite_receipt")]]
    /\ UNCHANGED <<conns, tasks, cands, hangs, fails, stops, rejected, quota, proxy>>

\* line 216: await conn.candidate_waiter (no suspension when it is done),
\* then line 219, the call of createAnswer.
\* invite without line 216.
InviteReceiptSentNoWait(s) ==
    /\ sess[s].inv = "receipt"
    /\ sess' = [sess EXCEPT ![s].inv = "createAnswer"]
    /\ UNCHANGED <<conns, tasks, cands, hangs, fails, stops, rejected, quota, proxy>>

InviteReceiptSent(s) ==
    /\ sess[s].inv = "receipt"
    /\ sess' = [sess EXCEPT ![s].inv =
          IF sess[s].candw = "done" THEN "createAnswer" ELSE "candwait"]
    /\ UNCHANGED <<conns, tasks, cands, hangs, fails, stops, rejected, quota, proxy>>

InviteGotCandidates(s) ==
    /\ sess[s].inv = "candwait"
    /\ sess[s].candw = "done"
    /\ sess' = [sess EXCEPT ![s].inv = "createAnswer"]
    /\ UNCHANGED <<conns, tasks, cands, hangs, fails, stops, rejected, quota, proxy>>

\* line 219-220: createAnswer returned; setLocalDescription is called.
InviteAnswerCreated(s, out) ==
    /\ sess[s].inv = "createAnswer"
    /\ out \in EngineOutcomes(s)
    /\ sess' = [sess EXCEPT ![s].inv = IF out = "raise" THEN "error" ELSE "setLocal"]
    /\ UNCHANGED <<conns, tasks, cands, hangs, fails, stops, rejected, quota, proxy>>

\* lines 220-229: setLocalDescription returned; the answer is sent, the
\* handler's last step.
InviteLocalSet(s, out) ==
    /\ sess[s].inv = "setLocal"
    /\ out \in EngineOutcomes(s)
    /\ sess' = [sess EXCEPT ![s] =
          IF out = "raise" THEN [@ EXCEPT !.inv = "error"]
          ELSE [@ EXCEPT !.local = TRUE, !.inv = "done",
                         !.log = Append(@, "answer")]]
    /\ UNCHANGED <<conns, tasks, cands, hangs, fails, stops, rejected, quota, proxy>>

\* -------------------------------------------------------- candidates
\* The index of the first entry at or after i that is not skipped by the
\* ValueError branch (lines 92-96), or Len(batch) + 1.
\* a loop without the except clause of lines 94-96.
SkipNone(batch, i) == i

RECURSIVE SkipBad(_, _)
SkipBad(batch, i) ==
    IF i > Len(batch) \/ batch[i] # Bad THEN i ELSE SkipBad(batch, i + 1)

\* The for loop of lines 87-101 from entry i up to its next suspension
\* point: <<the handler, the session>> afterwards.  An empty entry resolves
\* candidate_waiter (set_result raises InvalidStateError on a resolved
\* future) and leaves the loop; a parseable entry is handed to
\* addIceCandidate; after the loop send_receipt is called, the handler's
\* last step ("done": the batch was acknowledged).
CandLoop(c, i, S) ==
    LET j == SkipBad(c.batch, i) IN
    IF j > Len(c.batch)
    THEN <<[c EXCEPT !.pc = "done", !.i = j], S>>
    ELSE IF c.batch[j] = Empty
    THEN IF S.candw = "done"
         THEN <<[c EXCEPT !.pc = "error", !.i = j], S>>
         ELSE <<[c EXCEPT !.pc = "done", !.i = j], [S EXCEPT !.candw = "done"]>>
    ELSE <<[c EXCEPT !.pc = "adding", !.i = j],
           [S EXCEPT !.applied = Append(@, c.batch[j])]>>

\* lines 81-86: the lookup (KeyError returns silently) and the await of
\* prepare_waiter, which does not suspend when the future is done; waited
\* records that the handler was suspended there.
CandStartNoWait(c, S) == CandLoop(c, 1, S)

CandStart(c, S) ==
    IF S.prepare = "done" THEN CandLoop(c, 1, S)
    ELSE <<[c EXCEPT !.pc = "prepwait", !.waited = TRUE], S>>

Candidates(id, batch) ==
    /\ quota.batch > 0
    /\ quota' = [quota EXCEPT !.batch = @ - 1]
    /\ LET s == Lookup(conns, id)
           c == [id |-> id, sid |-> s, batch |-> batch, i |-> 0, pc |-> "ignored",
                 waited |-> FALSE]
       IN IF s = 0
          THEN /\ cands' = Append(cands, c)
               /\ UNCHANGED sess
          ELSE LET r == CandStart(c, sess[s]) IN
               /\ cands' = Append(cands, r[1])
               /\ sess' = [sess EXCEPT ![s] = r[2]]
    /\ UNCHANGED <<conns, tasks, hangs, fails, stops, rejected, proxy>>

\* prepare_waiter resolved: the handler enters the loop.
CandReady(k) ==
    /\ cands[k].pc = "prepwait"
    /\ sess[cands[k].sid].prepare = "done"
    /\ LET r == CandLoop(cands[k], 1, sess[cands[k].sid]) IN
       /\ cands' = [cands EXCEPT ![k] = r[1]]
       /\ sess' = [sess EXCEPT ![cands[k].sid] = r[2]]
    /\ UNCHANGED <<conns, tasks, hangs, fails, stops, rejected, quota, proxy>>

\* line 100: addIceCandidate returned; the loop goes on with the next entry.
CandAdded(k, out) ==
    /\ cands[k].pc = "adding"
    /\ out \in EngineOutcomes(cands[k].sid)
    /\ IF out = "raise"
       THEN /\ cands' = [cands EXCEPT ![k].pc = "error"]
            /\ UNCHANGED sess
       ELSE LET r == CandLoop(cands[k], cands[k].i + 1, sess[cands[k].sid]) IN
            /\ cands' = [cands EXCEPT ![k] = r[1]]
            /\ sess' = [sess EXCEPT ![cands[k].sid] = r[2]]
    /\ UNCHANGED <<conns, tasks, hangs, fails, stops, rejected, quota, proxy>>

\* ------------------------------------------------------------ hangup
\* line 106: conns.pop (KeyError returns silently), then pc.close() is
\* called on the popped session.
\* hangup without the except clause of lines 108-109: the KeyError of
\* line 106 leaves the handler.
HangupUncaught(id) ==
    /\ quota.hangup > 0
    /\ quota' = [quota EXCEPT !.hangup = @ - 1]
    /\ LET s == Lookup(conns, id) IN
       IF s = 0
       THEN /\ hangs' = Append(hangs, [id |-> id, sid |-> 0, pc |-> "error"])
            /\ UNCHANGED <<conns, sess>>
       ELSE /\ hangs' = Append(hangs, [id |-> id, sid |-> s, pc |-> "closing"])
            /\ conns' = Pop(conns, id)
            /\ sess' = CloseCall(sess, s)
    /\ UNCHANGED <<tasks, cands, fails, stops, rejected, proxy>>

Hangup(id) ==
    /\ quota.hangup > 0
    /\ quota' = [quota EXCEPT !.hangup = @ - 1]
    /\ LET s == Lookup(conns, id) IN
       IF s = 0
       THEN /\ hangs' = Append(hangs, [id |-> id, sid |-> 0, pc |-> "ignored"])
            /\ UNCHANGED <<conns, sess>>
       ELSE /\ hangs' = Append(hangs, [id |-> id, sid |-> s, pc |-> "closing"])
            /\ conns' = Pop(conns, id)
            /\ sess' = CloseCall(sess, s)
    /\ UNCHANGED <<tasks, cands, fails, stops, rejected, proxy>>

\* line 107: close returned, send_receipt is called, the handler's last
\* step; an exception of close other than KeyError leaves the handler.
HangupClosed(h, out) ==
    /\ hangs[h].pc = "closing"
    /\ out \in CloseOutcomes
    /\ IF out = "raise"
       THEN /\ hangs' = [hangs EXCEPT ![h].pc = "error"]
            /\ UNCHANGED sess
       ELSE /\ hangs' = [hangs EXCEPT ![h].pc = "done"]
            /\ sess' = [sess EXCEPT ![hangs[h].sid].log = Append(@, "hangup_receipt")]
    /\ UNCHANGED <<conns, tasks, cands, fails, stops, rejected, quota, proxy>>

\* ------------------------------------------- on_connectionstatechange
\* The engine reports a new connection state of an open handle.  "failed":
\* line 194, pc.close() is called.  "connected": line 197, a pipeline task
\* is created.  Any other state is only logged.  awaiting records whether
\* the invite handler was waiting for the end of candidates when the
\* failure was reported.
AwaitingCandidates(s) == sess[s].inv = "candwait" /\ sess[s].candw = "pending"

ConnectionState(s, st) ==
    /\ quota.notif > 0
    /\ quota' = [quota EXCEPT !.notif = @ - 1]
    /\ ~sess[s].closed
    /\ st # sess[s].cstate
    /\ \/ /\ st = "connecting"
          /\ sess' = [sess EXCEPT ![s].cstate = st]
          /\ UNCHANGED <<tasks, fails>>
       \/ /\ st = "connected"
          /\ sess' = [sess EXCEPT ![s].cstate = st]
          /\ tasks' = Append(tasks, NewTask(s))
          /\ UNCHANGED fails
       \/ /\ st = "failed"
          /\ sess' = CloseCall([sess EXCEPT ![s].cstate = st], s)
          /\ fails' = Append(fails, [sid |-> s, pc |-> "closing",
                                      awaiting |-> AwaitingCandidates(s)])
          /\ UNCHANGED tasks
    /\ UNCHANGED <<conns, cands, hangs, stops, rejected, proxy>>

\* line 195: close returned; conns.pop(unique_id, None).  The state read on
\* line 196 is that of a closed handle, never "connected".
FailedClosed(f, out) ==
    /\ fails[f].pc = "closing"
    /\ out \in CloseOutcomes
    /\ IF out = "raise"
       THEN /\ fails' = [fails EXCEPT ![f].pc = "error"]
            /\ UNCHANGED conns
       ELSE /\ fails' = [fails EXCEPT ![f].pc = "done"]
            /\ conns' = Pop(conns, sess[fails[f].sid].id)
    /\ UNCHANGED <<sess, tasks, cands, hangs, stops, rejected, quota, proxy>>

\* ---------------------------------------------------------- on_track
\* lines 199-203: the engine announces the tracks of the offer while it
\* applies the offer; the track is bound as an input, added to the
\* blackhole, and the proxy of its kind is added to the connection, whose
\* sender reads it from then on.
OnTrack(s, k) ==
    /\ quota.track > 0
    /\ quota' = [quota EXCEPT !.track = @ - 1]
    /\ sess[s].inv = "setRemote"
    /\ ~sess[s].closed
    /\ k \notin sess[s].inputs
    /\ sess' = [sess EXCEPT ![s].inputs = @ \cup {k}]
    /\ UNCHANGED <<conns, tasks, cands, hangs, fails, stops, rejected, proxy>>

\* lines 205-208: an inbound track ended; blackhole.stop().
TrackEnded(s, k) ==
    /\ quota.ended > 0
    /\ quota' = [quota EXCEPT !.ended = @ - 1]
    /\ k \in sess[s].inputs
    /\ k \notin sess[s].ended
    /\ sess' = [sess EXCEPT ![s].ended = @ \cup {k}, ![s].sink = "stopped"]
    /\ UNCHANGED <<conns, tasks, cands, hangs, fails, stops, rejected, proxy>>

\* -------------------------------------------------------------- task
\* The pipeline task of lines 140-188, one action per sleep or await; log is
\* what the task did so far.
TaskSession(t) == tasks[t].sid

\* lines 143-159, after sleep(8.1): blackhole.stop(), the recorders;
\* input_tracks["audio"] raises KeyError when no audio track is bound.
TaskRecord(t) ==
    LET s == TaskSession(t) IN
    /\ tasks[t].pc = "sleep8"
    /\ sess' = [sess EXCEPT ![s].sink = "stopped"]
    /\ tasks' = [tasks EXCEPT ![t] =
          IF "audio" \notin sess[s].inputs
          THEN [@ EXCEPT !.pc = "error", !.log = Append(@, "sink_stop")]
          ELSE [@ EXCEPT !.pc = "sleep10r", !.vrec = "video" \in sess[s].inputs,
                         !.log = @ \o <<"sink_stop", "rec_start">>]]
    /\ UNCHANGED <<conns, cands, hangs, fails, stops, rejected, quota, proxy>>

\* lines 160-170, after sleep(10): the recorders stop, the audio proxy gets
\* the tone, the blackhole is started again.
TaskTone(t) ==
    LET s == TaskSession(t) IN
    /\ tasks[t].pc = "sleep10r"
    /\ IF SetSourceRaises(sess[s].out.audio)
       THEN /\ tasks' = [tasks EXCEPT ![t].pc = "error",
                                      ![t].log = @ \o <<"rec_stop", "src_beep">>]
            /\ sess' = [sess EXCEPT ![s].out.audio = SetSource(@, "beep")]
       ELSE /\ tasks' = [tasks EXCEPT ![t].pc = "sleep1_5",
                            ![t].log = @ \o <<"rec_stop", "src_beep", "sink_start">>]
            /\ sess' = [sess EXCEPT ![s].out.audio = SetSource(@, "beep"),
                                    ![s].sink = "started"]
    /\ UNCHANGED <<conns, cands, hangs, fails, stops, rejected, quota, proxy>>

\* lines 171-178, after sleep(1.5): the proxies get the playback of the
\* recorded files.
TaskPlayback(t) ==
    LET s == TaskSession(t) IN
    /\ tasks[t].pc = "sleep1_5"
    /\ IF SetSourceRaises(sess[s].out.audio)
       THEN /\ tasks' = [tasks EXCEPT ![t].pc = "error",
                                      ![t].log = Append(@, "src_playback")]
            /\ sess' = [sess EXCEPT ![s].out.audio = SetSource(@, "playback")]
       ELSE IF ~tasks[t].vrec
       THEN /\ tasks' = [tasks EXCEPT ![t].pc = "sleep10p",
                                      ![t].log = Append(@, "src_playback")]
            /\ sess' = [sess EXCEPT ![s].out.audio = SetSource(@, "playback")]
       ELSE /\ tasks' = [tasks EXCEPT
                  ![t].pc = IF SetSourceRaises(sess[s].out.video)
                            THEN "error" ELSE "sleep10p",
                  ![t].log = @ \o <<"src_playback", "src_vplayback">>]
            /\ sess' = [sess EXCEPT ![s].out.audio = SetSource(@, "playback"),
                                    ![s].out.video = SetSource(@, "vplayback")]
    /\ UNCHANGED <<conns, cands, hangs, fails, stops, rejected, quota, proxy>>

\* lines 179-182, after sleep(10): the audio proxy gets the farewell.
TaskFarewell(t) ==
    LET s == TaskSession(t) IN
    /\ tasks[t].pc = "sleep10p"
    /\ tasks' = [tasks EXCEPT
          ![t].pc = IF SetSourceRaises(sess[s].out.audio) THEN "error" ELSE "sleep5",
          ![t].log = Append(@, "src_bye")]
    /\ sess' = [sess EXCEPT ![s].out.audio = SetSource(@, "bye")]
    /\ UNCHANGED <<conns, cands, hangs, fails, stops, rejected, quota, proxy>>

\* lines 183-187, after sleep(5): conns.pop(unique_id, None) and the hangup
\* message.
TaskHangup(t) ==
    LET s == TaskSession(t) IN
    /\ tasks[t].pc = "sleep5"
    /\ tasks' = [tasks EXCEPT ![t].pc = "sendHangup", ![t].log = Append(@, "hangup")]
    /\ conns' = Pop(conns, sess[s].id)
    /\ sess' = [sess EXCEPT ![s].log = Append(@, "hangup")]
    /\ UNCHANGED <<cands, hangs, fails, stops, rejected, quota, proxy>>

\* line 188: the send returned, pc.close() is called, the task's last step.
TaskHangupSent(t, out) ==
    /\ tasks[t].pc = "sendHangup"
    /\ out \in CloseOutcomes
    /\ tasks' = [tasks EXCEPT ![t].pc = IF out = "raise" THEN "error" ELSE "done",
                              ![t].log = Append(@, "close")]
    /\ sess' = CloseCall(sess, TaskSession(t))
    /\ UNCHANGED <<conns, cands, hangs, fails, stops, rejected, quota, proxy>>

\* --------------------------------------------------- ProxyTrack.recv
\* line 41-44: recv is called.
RecvCall(t) ==
    IF t.src # "none" THEN [t EXCEPT !.rd = "recv44", !.from = t.src]
    ELSE IF t.wait = "pending" THEN [t EXCEPT !.rd = "wait42"]
    ELSE [t EXCEPT !.rd = "stopped", !.ret = "error"]

\* lines 42 and 48: the awaited future is resolved; _source.recv() is called.
RecvWake(t) ==
    [t EXCEPT !.rd = IF @ = "wait42" THEN "recv44" ELSE "recv49", !.from = t.src]

\* lines 44-49: the producer's recv() returned a frame or raised
\* MediaStreamError.  Inside the try the error clears the producer and arms
\* a new future; on line 49 it leaves recv, and the sender stops reading.
RecvResult(t, res) ==
    IF res = "frame" THEN [t EXCEPT !.rd = "idle", !.ret = t.from, !.from = "none"]
    ELSE IF t.rd = "recv44"
    THEN [t EXCEPT !.rd = "wait48", !.src = "none", !.wait = "pending", !.from = "none"]
    ELSE [t EXCEPT !.rd = "stopped", !.ret = "error", !.from = "none"]

\* The sender of an open, connected handle reads the proxies it was given.
SenderRecv(s, k) ==
    /\ k \in sess[s].inputs
    /\ ~sess[s].closed
    /\ sess[s].cstate = "connected"
    /\ sess[s].out[k].rd = "idle"
    /\ quota.recv > 0
    /\ quota' = [quota EXCEPT !.recv = @ - 1]
    /\ sess' = [sess EXCEPT ![s].out[k] = RecvCall(@)]
    /\ UNCHANGED <<conns, tasks, cands, hangs, fails, stops, rejected, proxy>>

SenderWake(s, k) ==
    /\ ~sess[s].closed
    /\ sess[s].out[k].rd \in {"wait42", "wait48"}
    /\ sess[s].out[k].wait = "done"
    /\ sess' = [sess EXCEPT ![s].out[k] = RecvWake(@)]
    /\ UNCHANGED <<conns, tasks, cands, hangs, fails, stops, rejected, quota, proxy>>

SenderResult(s, k, res) ==
    /\ ~sess[s].closed
    /\ sess[s].out[k].rd \in {"recv44", "recv49"}
    /\ sess' = [sess EXCEPT ![s].out[k] = RecvResult(@, res)]
    /\ UNCHANGED <<conns, tasks, cands, hangs, fails, stops, rejected, quota, proxy>>

\* -------------------------------------------------------------- stop
\* The for statement of line 73 asks the dict iterator for its next item:
\* RuntimeError when the dict's size is not the one the iteration began
\* with, else the next live entry after the iterator's position; for that
\* entry line 75 sends the hangup message.  at records the sessions that
\* were registered when stop began.
StopNext(r, d, S) ==
    LET rest == {i \in Live(d) : i > r.pos} IN
    IF Cardinality(Live(d)) # r.len THEN <<[r EXCEPT !.pc = "error"], S>>
    ELSE IF rest = {} THEN <<[r EXCEPT !.pc = "done"], S>>
    ELSE LET j == CHOOSE i \in rest : \A i2 \in rest : i <= i2 IN
         <<[r EXCEPT !.pc = "sendHangup", !.pos = j, !.cur = d[j].val],
           [S EXCEPT ![d[j].val].log = Append(@, "stop_hangup")]>>

Stop ==
    /\ quota.stop > 0
    /\ quota' = [quota EXCEPT !.stop = @ - 1]
    /\ LET r == StopNext([pc |-> "start", pos |-> 0, cur |-> 0,
                          len |-> Cardinality(Live(conns)),
                          at |-> {conns[j].val : j \in Live(conns)}], conns, sess) IN
       /\ stops' = Append(stops, r[1])
       /\ sess' = r[2]
    /\ UNCHANGED <<conns, tasks, cands, hangs, fails, rejected, proxy>>

\* line 76: the send returned, conn.pc.close() is called.
StopHangupSent(i) ==
    /\ stops[i].pc = "sendHangup"
    /\ stops' = [stops EXCEPT ![i].pc = "closing"]
    /\ sess' = CloseCall(sess, stops[i].cur)
    /\ UNCHANGED <<conns, tasks, cands, hangs, fails, rejected, quota, proxy>>

\* close returned (or raised, which leaves stop); the loop asks for the
\* next item.
StopClosed(i, out) ==
    /\ stops[i].pc = "closing"
    /\ out \in CloseOutcomes
    /\ IF out = "raise"
       THEN /\ stops' = [stops EXCEPT ![i].pc = "error"]
            /\ UNCHANGED sess
       ELSE LET r == StopNext(stops[i], conns, sess) IN
            /\ stops' = [stops EXCEPT ![i] = r[1]]
            /\ sess' = r[2]
    /\ UNCHANGED <<conns, tasks, cands, hangs, fails, rejected, quota, proxy>>

\* ----------------------------------------------- a ProxyTrack alone
\* The producers the pipeline installs (lines 130-135, 164-180).
Producers == {"hello", "beep", "playback", "bye"}

Idle ==
    /\ conns = <<>> /\ sess = <<>> /\ tasks = <<>> /\ cands = <<>>
    /\ hangs = <<>> /\ fails = <<>> /\ stops = <<>> /\ rejected = 0
    /\ quota = Budget(0, 0, 0, 0, 0, 0, 0, 0, 0)

\* Both ways of construction: ProxyTrack(source=...) and ProxyTrack(kind=...).
InitProxy ==
    /\ Idle
    /\ proxy \in {Alone(ProxyInit("none")), Alone(ProxyInit("hello"))}

AloneSetSource(p) ==
    /\ proxy' = [proxy EXCEPT !.t = SetSource(@, p),
                              !.raised = SetSourceRaises(proxy.t),
                              !.installed = @ \cup {p}]
    /\ UNCHANGED <<conns, sess, tasks, cands, hangs, fails, stops, rejected, quota>>

AloneRecv ==
    /\ proxy.t.rd = "idle"
    /\ proxy' = [proxy EXCEPT !.t = RecvCall(@),
                              !.blocked = proxy.t.src = "none",
                              !.installed = {}]
    /\ UNCHANGED <<conns, sess, tasks, cands, hangs, fails, stops, rejected, quota>>

AloneWake ==
    /\ proxy.t.rd \in {"wait42", "wait48"}
    /\ proxy.t.wait = "done"
    /\ proxy' = [proxy EXCEPT !.t = RecvWake(@)]
    /\ UNCHANGED <<conns, sess, tasks, cands, hangs, fails, stops, rejected, quota>>

AloneResult(res) ==
    /\ proxy.t.rd \in {"recv44", "recv49"}
    /\ proxy' = [proxy EXCEPT
          !.t = RecvResult(@, res),
          !.blocked = @ \/ (res = "eos" /\ proxy.t.rd = "recv44"),
          !.installed = IF res = "eos" /\ proxy.t.rd = "recv44" THEN {} ELSE @]
    /\ UNCHANGED <<conns, sess, tasks, cands, hangs, fails, stops, rejected, quota>>

NextProxy ==
    \/ \E p \in Producers : AloneSetSource(p)
    \/ AloneRecv
    \/ AloneWake
    \/ \E res \in {"frame", "eos"} : AloneResult(res)

SpecProxy == InitProxy /\ [][NextProxy]_vars

\* C9: a recv never ends in an error because a producer ended or was
\* replaced, and a recv that waited for a producer returns a frame of a
\* producer that set_source installed after the wait began.
C9_RecvSurvivesSwap ==
    /\ proxy.t.ret # "error"
    /\ (proxy.blocked /\ proxy.t.rd = "idle" /\ proxy.t.ret # "none")
           => proxy.t.ret \in proxy.installed

\* A recv that waited for a producer returned a frame of the producer
\* installed afterwards.
C9_WaitedRecvReturned ==
    /\ proxy.blocked
    /\ proxy.t.rd = "idle"
    /\ proxy.t.ret \in proxy.installed

\* C16: no call of set_source raises, whatever calls of set_source and recv
\* and whatever ends of producers came before it.
C16_SetSourceNeverRaises == ~proxy.raised

\* ------------------------------------------- one long candidates event
\* One call, with its invite and one candidates event of up to LongLen
\* entries over LongCands distinct candidates, dispatched at any point of
\* the invite handler.
LongBatches ==
    UNION {[1..n -> {Empty, Bad} \cup (1..LongCands)] : n \in 1..LongLen}

InitBatch ==
    /\ conns = <<>> /\ sess = <<>> /\ tasks = <<>> /\ cands = <<>>
    /\ hangs = <<>> /\ fails = <<>> /\ stops = <<>> /\ rejected = 0
    /\ quota = Budget(1, 1, 1, 0, 0, 0, 0, 0, 0)
    /\ proxy = Alone(ProxyInit("none"))

NextBatch ==
    \/ \E id \in Calls : Invite(id, "1")
    \/ \E s \in Sids : InviteRemoteSet(s, "ok")
    \/ \E s \in Sids : InviteReceiptSent(s)
    \/ \E s \in Sids : InviteGotCandidates(s)
    \/ \E s \in Sids : InviteAnswerCreated(s, "ok")
    \/ \E s \in Sids : InviteLocalSet(s, "ok")
    \/ \E id \in Calls, batch \in LongBatches : Candidates(id, batch)
    \/ \E k \in 1..Len(cands) : CandReady(k)
    \/ \E k \in 1..Len(cands) : CandAdded(k, "ok")

SpecBatch == InitBatch /\ [][NextBatch]_vars

\* The entries of a batch that are to be handed to the engine: the
\* parseable ones before the first empty entry, in the order of the batch.
RECURSIVE Applicable(_)
Applicable(b) ==
    IF b = <<>> \/ Head(b) = Empty THEN <<>>
    ELSE IF Head(b) = Bad THEN Applicable(Tail(b))
    ELSE <<Head(b)>> \o Applicable(Tail(b))

IsPrefix(a, b) == Len(a) <= Len(b) /\ \A i \in 1..Len(a) : a[i] = b[i]

\* The candidates handlers that found session s.
HandlersOf(s) == {k \in 1..Len(cands) : cands[k].sid = s}

\* C18: the handler of the only candidates event of a registered session
\* never ends in an error; what it has handed to the engine is at every
\* moment a prefix of the batch's parseable entries before its first empty
\* entry, and all of them when the receipt is sent.
C18_BatchSkipsUnparseable ==
    \A k \in 1..Len(cands) :
        (cands[k].sid # 0 /\ HandlersOf(cands[k].sid) = {k}) =>
            /\ cands[k].pc # "error"
            /\ IsPrefix(sess[cands[k].sid].applied, Applicable(cands[k].batch))
            /\ cands[k].pc = "done" =>
                  sess[cands[k].sid].applied = Applicable(cands[k].batch)

\* C18 witness: a batch with an unparseable entry between two different
\* candidates was acknowledged.
C18_SkippedAndAcknowledged ==
    \E k \in 1..Len(cands) :
        /\ cands[k].pc = "done"
        /\ Len(cands[k].batch) = 3
        /\ cands[k].batch[2] = Bad
        /\ cands[k].batch[1] \notin {Empty, Bad, cands[k].batch[3]}
        /\ cands[k].batch[3] \notin {Empty, Bad}

\* ------------------------------------------ shutdown with closes that succeed
\* Invites, hangup events, "failed" notifications and stop, where every
\* pc.close() succeeds: stop can then end in an error only on line 73.
InitStop ==
    /\ conns = <<>> /\ sess = <<>> /\ tasks = <<>> /\ cands = <<>>
    /\ hangs = <<>> /\ fails = <<>> /\ stops = <<>> /\ rejected = 0
    /\ quota = Budget(NumCalls, MaxInvites, 0, MaxHangups, 1, MaxStops, 0, 0, 0)
    /\ proxy = Alone(ProxyInit("none"))

NextStop ==
    \/ \E id \in Calls : Invite(id, "1")
    \/ \E s \in Sids, out \in {"ok", "raise"} : InviteRemoteSet(s, out)
    \/ \E s \in Sids : InviteReceiptSent(s)
    \/ \E id \in Calls : Hangup(id)
    \/ \E h \in 1..Len(hangs) : HangupClosed(h, "ok")
    \/ \E s \in Sids : ConnectionState(s, "failed")
    \/ \E f \in 1..Len(fails) : FailedClosed(f, "ok")
    \/ Stop
    \/ \E i \in 1..Len(stops) : StopHangupSent(i)
    \/ \E i \in 1..Len(stops) : StopClosed(i, "ok")

SpecStop == InitStop /\ [][NextStop]_vars

\* C19: when every close succeeds, stop never ends in an error, whatever
\* is added to or removed from the registry during its sends and closes,
\* and in the step in which it returns every registered session has got its
\* hangup message and its close.
C19_StopSurvivesRegistryChange ==
    [][\A i \in 1..Len(stops') :
          /\ stops'[i].pc # "error"
          /\ (stops'[i].pc = "done" /\ (i > Len(stops) \/ stops[i].pc # "done")) =>
                \A s \in 1..Len(sess') :
                    Lookup(conns', sess'[s].id) = s =>
                        /\ sess'[s].closed
                        /\ \E j \in 1..Len(sess'[s].log) :
                              sess'[s].log[j] = "stop_hangup"]_vars

\* =============================================================== claims

\* C1: no candidate is handed to addIceCandidate of a session before
\* setRemoteDescription returned on that session's handle and its
\* negotiation-ready signal was set.
C1_NoCandidateBeforeOffer ==
    \A s \in Sids :
        sess[s].applied # <<>> => sess[s].remote /\ sess[s].prepare = "done"

\* C1 witness: a candidates handler that was dispatched while the invite
\* handler was suspended in setRemoteDescription has handed a candidate to
\* the engine.
C1_Witness ==
    \E k \in 1..Len(cands) :
        /\ cands[k].waited
        /\ cands[k].pc = "adding"
        /\ sess[cands[k].sid].applied # <<>>

\* C2: end-of-candidates is idempotent: no candidates handler ends in an
\* error at an empty entry, so every batch with an empty entry is
\* acknowledged.
C2_EndOfCandidatesIdempotent ==
    \A k \in 1..Len(cands) :
        ~(/\ cands[k].pc = "error"
          /\ cands[k].i \in 1..Len(cands[k].batch)
          /\ cands[k].batch[cands[k].i] = Empty)

\* C3: an invite never replaces the registry entry of a session that is
\* registered: the entry of an identity changes only by being removed.
C3_InviteKeepsFirstSession ==
    [][\A id \in CallIds :
          Lookup(conns, id) # 0 => Lookup(conns', id) \in {Lookup(conns, id), 0}]_vars

\* C4: at most one pipeline task exists per session, and the pipelines of a
\* session send at most one hangup message.
C4_PipelineStartedOnce ==
    \A s \in Sids :
        /\ Cardinality({t \in 1..Len(tasks) : tasks[t].sid = s}) <= 1
        /\ Count(s, "hangup") <= 1

\* A hangup event or a handled failure has removed the session and closed
\* its handle.
TornDown(s) ==
    \/ \E h \in 1..Len(hangs) : hangs[h].sid = s
    \/ \E f \in 1..Len(fails) : fails[f].sid = s /\ fails[f].pc = "done"

\* C5: once a hangup event or a failure has torn a session down, no
\* pipeline task of the session takes a further step and no message is sent
\* for it except the hangup receipt.
C5_TeardownCancelsPipeline ==
    [][\A t \in 1..Len(tasks) :
          TornDown(tasks[t].sid) =>
              /\ tasks'[t] = tasks[t]
              /\ Count(tasks[t].sid, "hangup")' = Count(tasks[t].sid, "hangup")]_vars

\* C6: when "failed" is reported while the invite handler waits for the end
\* of candidates, which was not signalled yet, no answer is sent for the
\* session.
C6_NoAnswerAfterFailure ==
    \A f \in 1..Len(fails) :
        fails[f].awaiting => ~Logged(fails[f].sid, "answer")

\* C7: when the handler of a "failed" notification has finished, a hangup
\* message was sent for the session.
C7_FailureSendsHangup ==
    \A f \in 1..Len(fails) :
        fails[f].pc = "done" =>
            Logged(fails[f].sid, "hangup") \/ Logged(fails[f].sid, "stop_hangup")

\* What a pipeline task does from its start to its end, in order.
FullPipeline(video) ==
    <<"sink_stop", "rec_start", "rec_stop", "src_beep", "sink_start", "src_playback">>
    \o (IF video THEN <<"src_vplayback">> ELSE <<>>)
    \o <<"src_bye", "hangup", "close">>

\* The task of a call that nothing disturbs: the only task of its session,
\* created after the answer was sent, with an audio input bound, no track
\* ended, no hangup event, no failure and no shutdown.
Undisturbed(t) ==
    LET s == tasks[t].sid IN
    /\ tasks[t].answered
    /\ \A u \in 1..Len(tasks) : tasks[u].sid = s => u = t
    /\ "audio" \in sess[s].inputs
    /\ sess[s].ended = {}
    /\ \A h \in 1..Len(hangs) : hangs[h].sid # s
    /\ \A f \in 1..Len(fails) : fails[f].sid # s
    /\ stops = <<>>

\* C8: the task of an undisturbed call with an audio input ends having done
\* every pipeline step once, in the order of the timeline, after the invite
\* receipt and the answer, with the session removed from the registry and
\* its handle closed.
C8_EndToEndOrder ==
    \A t \in 1..Len(tasks) :
        Undisturbed(t) /\ tasks[t].pc \in {"done", "error"} =>
            /\ tasks[t].log = FullPipeline(tasks[t].vrec)
            /\ sess[tasks[t].sid].log = <<"invite_receipt", "answer", "hangup">>
            /\ sess[tasks[t].sid].closed
            /\ ~Registered(tasks[t].sid)

\* The undisturbed call can run to its end: its task finished with every
\* step done.
C8_CompleteRun ==
    \E t \in 1..Len(tasks) :
        /\ Undisturbed(t)
        /\ tasks[t].pc = "done"
        /\ tasks[t].log = FullPipeline(tasks[t].vrec)

\* C10: the step in which stop returns leaves the registry empty, with a
\* hangup message sent and the handle closed for every session that was
\* registered when stop began.
C10_StopDrainsRegistry ==
    [][\A i \in 1..Len(stops') :
          (stops'[i].pc = "done" /\ (i > Len(stops) \/ stops[i].pc # "done")) =>
              /\ Live(conns') = {}
              /\ \A s \in stops'[i].at :
                    sess'[s].closed /\ \E j \in 1..Len(sess'[s].log) :
                                           sess'[s].log[j] = "stop_hangup"]_vars

\* C11: a hangup event for an identity that is not registered changes
\* neither the registry nor any session (no handle is closed, no receipt or
\* other message is sent), its handler returns at once without an error and
\* does nothing afterwards.
C11_UnknownHangupNoOp ==
    [][/\ \A id \in CallIds :
             (/\ Lookup(conns, id) = 0
              /\ Len(hangs') = Len(hangs) + 1
              /\ hangs'[Len(hangs')].id = id) =>
                 /\ hangs'[Len(hangs')].pc = "ignored"
                 /\ UNCHANGED <<conns, sess, tasks, cands, fails, stops>>
       /\ \A h \in 1..Len(hangs) :
             hangs[h].pc = "ignored" => hangs'[h] = hangs[h]]_vars

\* C11 witness: a second hangup event for an identity whose session an
\* earlier hangup removed was ignored.
C11_SecondHangupIgnored ==
    \E g \in 1..Len(hangs), h \in 1..Len(hangs) :
        /\ g < h
        /\ hangs[g].id = hangs[h].id
        /\ hangs[g].sid # 0
        /\ hangs[h].pc = "ignored"

\* C12: an invite that is rejected on its version creates no session (no
\* handle, no waiters), leaves the registry as it is and sends nothing.
C12_BadVersionLeavesNothing ==
    [][rejected' # rejected =>
          /\ rejected' = rejected + 1
          /\ UNCHANGED <<conns, sess, tasks, cands, hangs, fails, stops>>]_vars

\* C12 witness: an invite was rejected and no session exists.
C12_Rejected ==
    rejected > 0 /\ sess = <<>> /\ Live(conns) = {}

\* C14: once a hangup event has removed a session and closed its handle, no
\* handler hands a candidate or a local description to that handle and no
\* local description is set on it.  (The offer is handed to the engine in
\* the step that registers the session, before any hangup can find it.)
C14_NoActionAfterHangup ==
    [][\A s \in Sids :
          (\E h \in 1..Len(hangs) : hangs[h].sid = s) =>
              /\ sess'[s].applied = sess[s].applied
              /\ sess'[s].inv = "setLocal" => sess[s].inv = "setLocal"
              /\ sess'[s].local = sess[s].local]_vars

\* C15: when pc.close() has failed in the hangup handler, in the handler of
\* a "failed" notification or at the end of the pipeline, the session is
\* not in the registry any more.
C15_RemovedDespiteCloseFailure ==
    /\ \A h \in 1..Len(hangs) :
          hangs[h].pc = "error" => ~Registered(hangs[h].sid)
    /\ \A f \in 1..Len(fails) :
          fails[f].pc = "error" => ~Registered(fails[f].sid)
    /\ \A t \in 1..Len(tasks) :
          (tasks[t].pc = "error" /\ tasks[t].log # <<>>
             /\ tasks[t].log[Len(tasks[t].log)] = "close")
          => ~Registered(tasks[t].sid)

\* The first place of message e in the messages sent for session s.
FirstSent(s, e) ==
    CHOOSE i \in 1..Len(sess[s].log) :
        sess[s].log[i] = e /\ \A j \in 1..(i - 1) : sess[s].log[j] # e

\* C17: in every session the answer is sent only when the end of candidates
\* was signalled for the session and after the invite receipt; the receipt
\* is sent only when the offer was applied and negotiation-ready signalled;
\* at most one answer and one invite receipt are sent.
C17_NegotiationOrder ==
    \A s \in Sids :
        /\ Logged(s, "answer") =>
              /\ sess[s].candw = "done"
              /\ Logged(s, "invite_receipt")
              /\ FirstSent(s, "invite_receipt") < FirstSent(s, "answer")
        /\ Logged(s, "invite_receipt") => sess[s].remote /\ sess[s].prepare = "done"
        /\ Count(s, "answer") <= 1
        /\ Count(s, "invite_receipt") <= 1

\* C17 witness: an answer was sent for a session whose candidates arrived
\* while the offer was still being applied.
C17_AnsweredAfterWait ==
    \E s \in Sids, k \in 1..Len(cands) :
        /\ Logged(s, "answer")
        /\ cands[k].sid = s
        /\ cands[k].pc = "done"
        /\ cands[k].waited

\* C20: a pipeline task that was created after the answer was sent, on a
\* session that met no hangup event and no failure, never ends before its
\* last step (the close after the hangup message and the removal), whatever
\* inbound tracks are bound.
C20_PipelineCompletes ==
    \A t \in 1..Len(tasks) :
        (/\ tasks[t].answered
         /\ tasks[t].pc = "error"
         /\ \A h \in 1..Len(hangs) : hangs[h].sid # tasks[t].sid
         /\ \A f \in 1..Len(fails) : fails[f].sid # tasks[t].sid)
        => (tasks[t].log # <<>> /\ tasks[t].log[Len(tasks[t].log)] = "close")

Next ==
    \/ \E id \in Calls, ver \in {"1", "2"} : Invite(id, ver)
    \/ \E s \in Sids, out \in {"ok", "raise"} : InviteRemoteSet(s, out)
    \/ \E s \in Sids : InviteReceiptSent(s)
    \/ \E s \in Sids : InviteGotCandidates(s)
    \/ \E s \in Sids, out \in {"ok", "raise"} : InviteAnswerCreated(s, out)
    \/ \E s \in Sids, out \in {"ok", "raise"} : InviteLocalSet(s, out)
    \/ \E id \in Calls, batch \in Batches : Candidates(id, batch)
    \/ \E k \in 1..Len(cands) : CandReady(k)
    \/ \E k \in 1..Len(cands), out \in {"ok", "raise"} : CandAdded(k, out)
    \/ \E id \in Calls : Hangup(id)
    \/ \E h \in 1..Len(hangs), out \in CloseOutcomes : HangupClosed(h, out)
    \/ \E s \in Sids, st \in {"connecting", "connected", "failed"} : ConnectionState(s, st)
    \/ \E f \in 1..Len(fails), out \in CloseOutcomes : FailedClosed(f, out)
    \/ \E s \in Sids, k \in Kinds : OnTrack(s, k)
    \/ \E s \in Sids, k \in Kinds : TrackEnded(s, k)
    \/ \E t \in 1..Len(tasks) : TaskRecord(t)
    \/ \E t \in 1..Len(tasks) : TaskTone(t)
    \/ \E t \in 1..Len(tasks) : TaskPlayback(t)
    \/ \E t \in 1..Len(tasks) : TaskFarewell(t)
    \/ \E t \in 1..Len(tasks) : TaskHangup(t)
    \/ \E t \in 1..Len(tasks), out \in CloseOutcomes : TaskHangupSent(t, out)
    \/ \E s \in Sids, k \in Kinds : SenderRecv(s, k)
    \/ \E s \in Sids, k \in Kinds : SenderWake(s, k)
    \/ \E s \in Sids, k \in Kinds, res \in {"frame", "eos"} : SenderResult(s, k, res)
    \/ Stop
    \/ \E i \in 1..Len(stops) : StopHangupSent(i)
    \/ \E i \in 1..Len(stops), out \in CloseOutcomes : StopClosed(i, out)

Spec == Init /\ [][Next]_vars

\* --------------------------------------------------------- scheduling
\* The steps the event loop and the engine owe: a coroutine whose awaited
\* call returned or whose awaited future was resolved is resumed.  The
\* events of the environment (messages, notifications, stop, the sender's
\* reads) owe nothing.
Resume ==
    \/ \E s \in Sids, out \in {"ok", "raise"} : InviteRemoteSet(s, out)
    \/ \E s \in Sids : InviteReceiptSent(s)
    \/ \E s \in Sids : InviteGotCandidates(s)
    \/ \E s \in Sids, out \in {"ok", "raise"} : InviteAnswerCreated(s, out)
    \/ \E s \in Sids, out \in {"ok", "raise"} : InviteLocalSet(s, out)
    \/ \E k \in 1..Len(cands) : CandReady(k)
    \/ \E k \in 1..Len(cands), out \in {"ok", "raise"} : CandAdded(k, out)
    \/ \E h \in 1..Len(hangs), out \in CloseOutcomes : HangupClosed(h, out)
    \/ \E f \in 1..Len(fails), out \in CloseOutcomes : FailedClosed(f, out)
    \/ \E t \in 1..Len(tasks) : TaskRecord(t)
    \/ \E t \in 1..Len(tasks) : TaskTone(t)
    \/ \E t \in 1..Len(tasks) : TaskPlayback(t)
    \/ \E t \in 1..Len(tasks) : TaskFarewell(t)
    \/ \E t \in 1..Len(tasks) : TaskHangup(t)
    \/ \E t \in 1..Len(tasks), out \in CloseOutcomes : TaskHangupSent(t, out)
    \/ \E s \in Sids, k \in Kinds : SenderWake(s, k)
    \/ \E i \in 1..Len(stops) : StopHangupSent(i)
    \/ \E i \in 1..Len(stops), out \in CloseOutcomes : StopClosed(i, out)

SpecLive == Spec /\ WF_vars(Resume)

\* C13: an invite handler that waits for the end of candidates, and a
\* candidates handler that waits for negotiation-ready, of a session that
\* was removed from the registry with its handle closed, eventually leaves
\* that wait.
C13_SuspensionReleased ==
    /\ \A s \in 1..MaxInvites :
          [](s \in Sids /\ sess[s].inv = "candwait"
               /\ sess[s].closed /\ ~Registered(s)
             => <>(s \in Sids /\ sess[s].inv # "candwait"))
    /\ \A k \in 1..MaxBatches :
          [](k \in 1..Len(cands) /\ cands[k].pc = "prepwait"
               /\ sess[cands[k].sid].closed /\ ~Registered(cands[k].sid)
             => <>(k \in 1..Len(cands) /\ cands[k].pc # "prepwait"))
====
